---- MODULE Spec2Model ----
(***************************************************************************)
(* Model of arraybridge/conversion_helpers.py: the MemoryTypeConverter     *)
(* abstraction, the generated to_<target> methods (two-tier conversion:    *)
(* DLPack first, NumPy roundtrip second), the _CONVERTERS registry and the *)
(* load-time validation of the converter matrix.                           *)
(***************************************************************************)
EXTENDS Integers, Sequences, FiniteSets, TLC

(***************************************************************************)
(* Bounds                                                                  *)
(***************************************************************************)
\* how many members of the MemoryType enum the model instantiates
NumTypes == 2

\* how many GPU device ids a caller may pass as gpu_id
NumDevices == 2

(***************************************************************************)
(* Static data                                                             *)
(***************************************************************************)
\* the members of the MemoryType enum, in definition (iteration) order
MemoryTypeOrder == <<"numpy", "cupy", "torch", "tensorflow", "jax", "pyclesperanto">>

MemoryTypeSeq == SubSeq(MemoryTypeOrder, 1, IF NumTypes < Len(MemoryTypeOrder) THEN NumTypes ELSE Len(MemoryTypeOrder))

MemoryType == {MemoryTypeSeq[i] : i \in 1..Len(MemoryTypeSeq)}

\* required_methods of _validate_converters: the four abstract primitives
required_methods == <<"to_numpy", "from_numpy", "from_dlpack", "move_to_device">>

Primitives == {required_methods[i] : i \in 1..Len(required_methods)}

\* method_name = f"to_{target_type.value}"
method_name(target_type) == "to_" \o target_type

DerivedNames == {method_name(m) : m \in MemoryType}

AllAttrs == Primitives \cup DerivedNames

Devices == {"gpu" \o ToString(i) : i \in 0..(NumDevices - 1)}

Contents == {"c1", "c2"}

\* an array value: the framework it is native to, its logical contents and
\* the device it resides on
NoValue == [fw |-> "None", content |-> "None", dev |-> "None"]

\* well-formed inputs native to framework src (numpy arrays live on the host)
InputValues(src) ==
  IF src = "numpy"
    THEN {[fw |-> src, content |-> c, dev |-> "host"] : c \in Contents}
    ELSE {[fw |-> src, content |-> c, dev |-> d] : c \in Contents, d \in Devices}

\* exceptions: cls is the Python class family of the raised object
NoExc == [cls |-> "None", prim |-> "None", cause |-> "None"]

RaisedBy(cls, prim) == [cls |-> cls, prim |-> prim, cause |-> "None"]

\* classes deriving from Exception, and those deriving only from
\* BaseException (KeyboardInterrupt, SystemExit, GeneratorExit)
ExceptionClasses == {"Exception", "AttributeError"}

BaseOnlyClasses == {"BaseException"}

(***************************************************************************)
(* The four primitives of a concrete converter (MemoryTypeConverter ABC).  *)
(* conv is the memory type the converter is registered for.                *)
(***************************************************************************)
to_numpy(conv, data, gpu_id) ==
  [fw |-> "numpy", content |-> data.content, dev |-> "host"]

from_numpy(conv, data, gpu_id) ==
  [fw |-> conv, content |-> data.content, dev |-> IF conv = "numpy" THEN "host" ELSE gpu_id]

from_dlpack(conv, data, gpu_id) ==
  [fw |-> conv, content |-> data.content, dev |-> data.dev]

move_to_device(conv, data, gpu_id) ==
  [data EXCEPT !.dev = IF conv = "numpy" THEN "host" ELSE gpu_id]

(***************************************************************************)
(* State                                                                   *)
(***************************************************************************)
VARIABLES
  registered,   \* converters_registry: memory type -> converter object
  _CONVERTERS,  \* the module-level dict, <<>> until it is populated
  generated,    \* MemoryTypeConverter class dict: method name -> bound tgt
  initPc,       \* position of the module body
  loopIdx,      \* index of the next target_type in _add_converter_methods
  validations,  \* how many times _validate_converters has run
  initError,    \* the exception that ended module initialization, if any
  frame         \* per calling thread: the frame of a to_<target> call

vars == <<registered, _CONVERTERS, generated, initPc, loopIdx, validations, initError, frame>>

Threads == {"t1"}

\* a converter object: the memory type it implements, whether its class
\* derives from MemoryTypeConverter, and the attributes its own class defines
ABCConverter(m) == [mem |-> m, abc |-> TRUE, own |-> Primitives]

DuckConverter(m, missing) == [mem |-> m, abc |-> FALSE, own |-> AllAttrs \ {missing}]

\* hasattr(converter, name): own attributes, else those of the ABC (its
\* four abstract methods and the methods setattr has attached so far)
hasattr(converter, name) ==
  \/ name \in converter.own
  \/ converter.abc /\ (name \in Primitives \/ name \in DOMAIN generated)

\* the RuntimeError of _validate_converters names a converter and a method
NoInitError == [cls |-> "None", mem_type |-> "None", method |-> "None"]

IdleFrame ==
  [pc |-> "idle", self |-> "None", name |-> "None", tgt |-> "None",
   data |-> NoValue, gpu_id |-> "None", result |-> NoValue,
   numpy_data |-> NoValue, ret |-> NoValue, exc |-> NoExc,
   dlpack |-> FALSE, trace |-> <<>>, warnings |-> 0, hop |-> 0,
   orig |-> NoValue, trace1 |-> <<>>]

\* the registries the converters_registry module may hold: every converter
\* a complete MemoryTypeConverter subclass, or one of them a foreign object
\* that lacks exactly one attribute
Registries ==
  {[m \in MemoryType |-> ABCConverter(m)]}
  \cup {[m \in MemoryType |-> IF m = h THEN DuckConverter(m, a) ELSE ABCConverter(m)] :
          h \in MemoryType, a \in AllAttrs}

Init ==
  /\ registered \in Registries
  /\ _CONVERTERS = <<>>
  /\ generated = <<>>
  /\ initPc = "populate"
  /\ loopIdx = 1
  /\ validations = 0
  /\ initError = NoInitError
  /\ frame = [t \in Threads |-> IdleFrame]

(***************************************************************************)
(* Module initialization                                                   *)
(***************************************************************************)
\* _CONVERTERS = {mem_type: get_converter(mem_type.value) for mem_type in MemoryType}
PopulateConverters ==
  /\ initPc = "populate"
  /\ _CONVERTERS' = [mem_type \in MemoryType |-> registered[mem_type]]
  /\ initPc' = "generate"
  /\ UNCHANGED <<registered, generated, loopIdx, validations, initError, frame>>

\* a closure over the loop variable: every method sees the last member
make_method_LateBinding(tgt) == MemoryTypeSeq[Len(MemoryTypeSeq)]

\* make_method(tgt): the closure binds tgt, the argument of this call
make_method(tgt) == tgt

\* one iteration of the loop of _add_converter_methods (setattr on the ABC)
_add_converter_methods ==
  /\ initPc = "generate"
  /\ IF loopIdx <= Len(MemoryTypeSeq)
       THEN LET target_type == MemoryTypeSeq[loopIdx] IN
            /\ generated' = (method_name(target_type) :> make_method(target_type)) @@ generated
            /\ loopIdx' = loopIdx + 1
            /\ UNCHANGED initPc
       ELSE /\ initPc' = "validate"
            /\ UNCHANGED <<generated, loopIdx>>
  /\ UNCHANGED <<registered, _CONVERTERS, validations, initError, frame>>

\* a validator that checks the four primitives only
CheckedMethods_PrimitivesOnly == required_methods

\* the attribute names _validate_converters looks up on each converter, in
\* the order it looks them up
CheckedMethods ==
  required_methods \o [i \in 1..Len(MemoryTypeSeq) |-> method_name(MemoryTypeSeq[i])]

\* a validator that returns after the first converter
CheckedConverters_FirstOnly == SubSeq(MemoryTypeSeq, 1, 1)

\* the converters _validate_converters visits (_CONVERTERS.items())
CheckedConverters == MemoryTypeSeq

SetMin(S) == CHOOSE x \in S : \A y \in S : x <= y

\* the first (mem_type, method) whose hasattr is false, as index pair
MissingPairs ==
  {<<i, j>> \in (1..Len(CheckedConverters)) \X (1..Len(CheckedMethods)) :
     ~hasattr(_CONVERTERS[CheckedConverters[i]], CheckedMethods[j])}

FirstMissing ==
  LET i == SetMin({p[1] : p \in MissingPairs})
      j == SetMin({p[2] : p \in {q \in MissingPairs : q[1] = i}})
  IN <<CheckedConverters[i], CheckedMethods[j]>>

\* _validate_converters(): raises RuntimeError at the first missing method
_validate_converters ==
  /\ initPc = "validate"
  /\ validations' = validations + 1
  /\ IF MissingPairs = {}
       THEN /\ initPc' = "done"
            /\ UNCHANGED initError
       ELSE /\ initPc' = "failed"
            /\ initError' = [cls |-> "RuntimeError", mem_type |-> FirstMissing[1],
                             method |-> FirstMissing[2]]
  /\ UNCHANGED <<registered, _CONVERTERS, generated, loopIdx, frame>>

(***************************************************************************)
(* A call of a generated method:  method(self, data, gpu_id)               *)
(***************************************************************************)
\* one primitive invocation, as the call observed it
Invocation(prim, conv, arg, gpu_id, val, e) ==
  [prim |-> prim, conv |-> conv, arg |-> arg, gpu |-> gpu_id,
   ok |-> (e = NoExc), val |-> val, exc |-> e]

\* what invoking attribute prim of a converter object can do: return, raise
\* some Exception, raise a BaseException that is not an Exception; a missing
\* attribute raises AttributeError
Outcomes(converter, prim) ==
  IF hasattr(converter, prim)
    THEN {"ok", "Exception", "BaseException"}
    ELSE {"AttributeError"}

\* a caller invokes the generated to_<name> with the converter registered for
\* src as self, a MemoryTypeConverter instance (through the instance, or
\* through the class where the instance's own to_numpy primitive hides the
\* generated method of that name)
Invoke(t) ==
  /\ frame[t].pc = "idle"
  /\ \E src \in MemoryType, name \in MemoryType, g \in Devices :
       \E d \in InputValues(src) :
         /\ registered[src].abc
         /\ method_name(name) \in DOMAIN generated
         /\ frame' = [frame EXCEPT ![t] =
              [IdleFrame EXCEPT !.pc = "probe", !.self = src, !.name = name,
                                !.tgt = generated[method_name(name)],
                                !.data = d, !.gpu_id = g, !.hop = 1, !.orig = d]]
  /\ UNCHANGED <<registered, _CONVERTERS, generated, initPc, loopIdx, validations, initError>>

\* the caller converts the value it got back to the framework it started from
InvokeBack(t) ==
  LET f == frame[t] IN
  /\ f.pc = "returned"
  /\ f.hop = 1
  /\ registered[f.name].abc
  /\ method_name(f.self) \in DOMAIN generated
  /\ frame' = [frame EXCEPT ![t] =
       [IdleFrame EXCEPT !.pc = "probe", !.self = f.name, !.name = f.self,
                         !.tgt = generated[method_name(f.self)],
                         !.data = f.ret, !.gpu_id = f.gpu_id, !.hop = 2,
                         !.orig = f.orig, !.trace1 = f.trace]]
  /\ UNCHANGED <<registered, _CONVERTERS, generated, initPc, loopIdx, validations, initError>>

\* a method that enters the DLPack attempt whatever the probe says
Branch_AlwaysDlpack(b) == "from_dlpack"

\* if _supports_dlpack(data): the try block, else the CPU roundtrip
Branch(b) == IF b THEN "from_dlpack" ELSE "to_numpy"

\* if _supports_dlpack(data):
_supports_dlpack(t) ==
  /\ frame[t].pc = "probe"
  /\ \E b \in BOOLEAN :
       frame' = [frame EXCEPT ![t].dlpack = b, ![t].pc = Branch(b)]
  /\ UNCHANGED <<registered, _CONVERTERS, generated, initPc, loopIdx, validations, initError>>

\* a handler narrowed to one exception class
except_AttributeError(e) == e.cls = "AttributeError"

\* except Exception as e:  which raised objects the handler catches
except_Exception(e) == e.cls \in ExceptionClasses

\* a handler that hands back what from_dlpack imported instead of falling
\* through to the CPU roundtrip
Tier1Raised_ReturnsResult(f, inv) ==
  IF except_Exception(inv.exc)
    THEN [f EXCEPT !.pc = "returned", !.ret = f.result, !.warnings = @ + 1,
                   !.trace = Append(@, inv)]
    ELSE [f EXCEPT !.pc = "raised", !.exc = inv.exc, !.trace = Append(@, inv)]

\* a handler that tries the DLPack attempt a second time before falling back
Tier1Raised_RetriesOnce(f, inv) ==
  IF except_Exception(inv.exc)
    THEN [f EXCEPT !.pc = IF f.warnings = 0 THEN "from_dlpack" ELSE "to_numpy",
                   !.warnings = @ + 1, !.trace = Append(@, inv)]
    ELSE [f EXCEPT !.pc = "raised", !.exc = inv.exc, !.trace = Append(@, inv)]

\* a handler that falls through without logging
Tier1Raised_Silent(f, inv) ==
  IF except_Exception(inv.exc)
    THEN [f EXCEPT !.pc = "to_numpy", !.trace = Append(@, inv)]
    ELSE [f EXCEPT !.pc = "raised", !.exc = inv.exc, !.trace = Append(@, inv)]

\* the handler of the DLPack attempt: log a warning and fall through to the
\* CPU roundtrip; what it does not catch leaves the call
Tier1Raised(f, inv) ==
  IF except_Exception(inv.exc)
    THEN [f EXCEPT !.pc = "to_numpy", !.warnings = @ + 1, !.trace = Append(@, inv)]
    ELSE [f EXCEPT !.pc = "raised", !.exc = inv.exc, !.trace = Append(@, inv)]

\* an exception in the CPU roundtrip leaves the call as it was raised
Tier2Raised(f, inv) ==
  [f EXCEPT !.pc = "raised", !.exc = inv.exc, !.trace = Append(@, inv)]

\* target_converter = _CONVERTERS[tgt]; result = target_converter.from_dlpack(data, gpu_id)
Tier1FromDlpack(t) ==
  LET f == frame[t]
      target_converter == _CONVERTERS[f.tgt]
  IN
  /\ f.pc = "from_dlpack"
  /\ \E o \in Outcomes(target_converter, "from_dlpack") :
       IF o = "ok"
         THEN LET result == from_dlpack(target_converter.mem, f.data, f.gpu_id) IN
              frame' = [frame EXCEPT ![t] =
                [f EXCEPT !.pc = "move_to_device", !.result = result,
                          !.trace = Append(@, Invocation("from_dlpack", target_converter.mem,
                                                         f.data, f.gpu_id, result, NoExc))]]
         ELSE frame' = [frame EXCEPT ![t] =
                Tier1Raised(f, Invocation("from_dlpack", target_converter.mem, f.data,
                                          f.gpu_id, NoValue, RaisedBy(o, "from_dlpack")))]
  /\ UNCHANGED <<registered, _CONVERTERS, generated, initPc, loopIdx, validations, initError>>

\* return target_converter.move_to_device(result, gpu_id)
Tier1MoveToDevice(t) ==
  LET f == frame[t]
      target_converter == _CONVERTERS[f.tgt]
  IN
  /\ f.pc = "move_to_device"
  /\ \E o \in Outcomes(target_converter, "move_to_device") :
       IF o = "ok"
         THEN LET moved == move_to_device(target_converter.mem, f.result, f.gpu_id) IN
              frame' = [frame EXCEPT ![t] =
                [f EXCEPT !.pc = "returned", !.ret = moved,
                          !.trace = Append(@, Invocation("move_to_device", target_converter.mem,
                                                         f.result, f.gpu_id, moved, NoExc))]]
         ELSE frame' = [frame EXCEPT ![t] =
                Tier1Raised(f, Invocation("move_to_device", target_converter.mem, f.result,
                                          f.gpu_id, NoValue, RaisedBy(o, "move_to_device")))]
  /\ UNCHANGED <<registered, _CONVERTERS, generated, initPc, loopIdx, validations, initError>>

\* a roundtrip that also stores the converter it ran on in the shared dict,
\* under the key of the target
Tier2ToNumpy_StoresConverter(t) ==
  LET f == frame[t] IN
  /\ f.pc = "to_numpy"
  /\ \E o \in Outcomes(registered[f.self], "to_numpy") :
       IF o = "ok"
         THEN LET numpy_data == to_numpy(f.self, f.data, f.gpu_id) IN
              frame' = [frame EXCEPT ![t] =
                [f EXCEPT !.pc = "from_numpy", !.numpy_data = numpy_data,
                          !.trace = Append(@, Invocation("to_numpy", f.self, f.data,
                                                         f.gpu_id, numpy_data, NoExc))]]
         ELSE frame' = [frame EXCEPT ![t] =
                Tier2Raised(f, Invocation("to_numpy", f.self, f.data, f.gpu_id,
                                          NoValue, RaisedBy(o, "to_numpy")))]
  /\ _CONVERTERS' = [_CONVERTERS EXCEPT ![f.tgt] = registered[f.self]]
  /\ UNCHANGED <<registered, generated, initPc, loopIdx, validations, initError>>

\* numpy_data = self.to_numpy(data, gpu_id)
Tier2ToNumpy(t) ==
  LET f == frame[t] IN
  /\ f.pc = "to_numpy"
  /\ \E o \in Outcomes(registered[f.self], "to_numpy") :
       IF o = "ok"
         THEN LET numpy_data == to_numpy(f.self, f.data, f.gpu_id) IN
              frame' = [frame EXCEPT ![t] =
                [f EXCEPT !.pc = "from_numpy", !.numpy_data = numpy_data,
                          !.trace = Append(@, Invocation("to_numpy", f.self, f.data,
                                                         f.gpu_id, numpy_data, NoExc))]]
         ELSE frame' = [frame EXCEPT ![t] =
                Tier2Raised(f, Invocation("to_numpy", f.self, f.data, f.gpu_id,
                                          NoValue, RaisedBy(o, "to_numpy")))]
  /\ UNCHANGED <<registered, _CONVERTERS, generated, initPc, loopIdx, validations, initError>>

\* a roundtrip that builds the result with the source converter
Tier2Target_Self(f) == f.self

\* target_converter = _CONVERTERS[tgt] of the CPU roundtrip
Tier2Target(f) == f.tgt

\* a roundtrip that hands from_numpy the caller's array
from_numpy_argument_Data(f) == f.data

\* the first argument of from_numpy: the local numpy_data
from_numpy_argument(f) == f.numpy_data

\* return target_converter.from_numpy(numpy_data, gpu_id)
Tier2FromNumpy(t) ==
  LET f == frame[t]
      target_converter == _CONVERTERS[Tier2Target(f)]
      numpy_data == from_numpy_argument(f)
  IN
  /\ f.pc = "from_numpy"
  /\ \E o \in Outcomes(target_converter, "from_numpy") :
       IF o = "ok"
         THEN LET converted == from_numpy(target_converter.mem, numpy_data, f.gpu_id) IN
              frame' = [frame EXCEPT ![t] =
                [f EXCEPT !.pc = "returned", !.ret = converted,
                          !.trace = Append(@, Invocation("from_numpy", target_converter.mem,
                                                         numpy_data, f.gpu_id, converted, NoExc))]]
         ELSE frame' = [frame EXCEPT ![t] =
                Tier2Raised(f, Invocation("from_numpy", target_converter.mem, numpy_data,
                                          f.gpu_id, NoValue, RaisedBy(o, "from_numpy")))]
  /\ UNCHANGED <<registered, _CONVERTERS, generated, initPc, loopIdx, validations, initError>>

Next ==
  \/ PopulateConverters
  \/ _add_converter_methods
  \/ _validate_converters
  \/ \E t \in Threads : Invoke(t)
  \/ \E t \in Threads : InvokeBack(t)
  \/ \E t \in Threads : _supports_dlpack(t)
  \/ \E t \in Threads : Tier1FromDlpack(t)
  \/ \E t \in Threads : Tier1MoveToDevice(t)
  \/ \E t \in Threads : Tier2ToNumpy(t)
  \/ \E t \in Threads : Tier2FromNumpy(t)

Spec == Init /\ [][Next]_vars

(***************************************************************************)
(* Concurrent callers: two threads, each converting an array of its own,   *)
(* while and after a module with a complete registry initializes.          *)
(***************************************************************************)
ConcurrentThreads == {"t1", "t2"}

\* the contents of the array each thread converts
ThreadContent(t) == IF t = "t1" THEN "c1" ELSE "c2"

\* the device each thread asks for
ThreadDevice(t) == IF t = "t1" THEN "gpu0" ELSE "gpu" \o ToString(NumDevices - 1)

InitConcurrent ==
  /\ registered = [m \in MemoryType |-> ABCConverter(m)]
  /\ _CONVERTERS = <<>>
  /\ generated = <<>>
  /\ initPc = "populate"
  /\ loopIdx = 1
  /\ validations = 0
  /\ initError = NoInitError
  /\ frame = [t \in ConcurrentThreads |-> IdleFrame]

\* thread t invokes the generated to_<name> on its own array
InvokeConcurrent(t) ==
  /\ frame[t].pc = "idle"
  /\ \E src \in MemoryType, name \in MemoryType, g \in {ThreadDevice(t)} :
       \E d \in {v \in InputValues(src) : v.content = ThreadContent(t)} :
         /\ registered[src].abc
         /\ method_name(name) \in DOMAIN generated
         /\ frame' = [frame EXCEPT ![t] =
              [IdleFrame EXCEPT !.pc = "probe", !.self = src, !.name = name,
                                !.tgt = generated[method_name(name)],
                                !.data = d, !.gpu_id = g, !.hop = 1, !.orig = d]]
  /\ UNCHANGED <<registered, _CONVERTERS, generated, initPc, loopIdx, validations, initError>>

NextConcurrent ==
  \/ PopulateConverters
  \/ _add_converter_methods
  \/ _validate_converters
  \/ \E t \in ConcurrentThreads : InvokeConcurrent(t)
  \/ \E t \in ConcurrentThreads : _supports_dlpack(t)
  \/ \E t \in ConcurrentThreads : Tier1FromDlpack(t)
  \/ \E t \in ConcurrentThreads : Tier1MoveToDevice(t)
  \/ \E t \in ConcurrentThreads : Tier2ToNumpy(t)
  \/ \E t \in ConcurrentThreads : Tier2FromNumpy(t)

SpecConcurrent == InitConcurrent /\ [][NextConcurrent]_vars

(***************************************************************************)
(* Progress: the module body of a complete registry runs on, and every     *)
(* primitive a call has invoked terminates, returning or raising.          *)
(***************************************************************************)
InitComplete ==
  /\ Init
  /\ registered = [m \in MemoryType |-> ABCConverter(m)]

CallProgress(t) ==
  \/ _supports_dlpack(t)
  \/ Tier1FromDlpack(t)
  \/ Tier1MoveToDevice(t)
  \/ Tier2ToNumpy(t)
  \/ Tier2FromNumpy(t)

SpecProgress ==
  /\ InitComplete
  /\ [][Next]_vars
  /\ \A t \in Threads : WF_vars(CallProgress(t))

TypeOK ==
  /\ initPc \in {"populate", "generate", "validate", "done", "failed"}
  /\ \A t \in Threads :
       frame[t].pc \in {"idle", "probe", "from_dlpack", "move_to_device",
                        "to_numpy", "from_numpy", "returned", "raised"}

(***************************************************************************)
(* Properties                                                              *)
(***************************************************************************)
Last(seq) == seq[Len(seq)]

Tier1Prims == {"from_dlpack", "move_to_device"}

Tier2Prims == {"to_numpy", "from_numpy"}

\* the invocations of the DLPack attempt that raised, and those among them
\* that raised an Exception
Tier1Failures(f) ==
  {i \in 1..Len(f.trace) : f.trace[i].prim \in Tier1Prims /\ ~f.trace[i].ok}

Tier1ExceptionFailures(f) ==
  {i \in Tier1Failures(f) : f.trace[i].exc.cls \in ExceptionClasses}

\* the CPU roundtrip of the call, computed from its arguments
Roundtrip(f) == from_numpy(f.name, to_numpy(f.self, f.data, f.gpu_id), f.gpu_id)

\* the call is in, or has gone through, the CPU roundtrip and its outcome is
\* the roundtrip's: the roundtrip's value, or an exception a roundtrip
\* primitive raised
ServedByRoundtrip(f) ==
  /\ f.pc \in {"to_numpy", "from_numpy", "returned", "raised"}
  /\ f.pc = "raised" => f.exc.prim \in Tier2Prims
  /\ f.pc = "returned" => f.ret = Roundtrip(f) /\ Last(f.trace).prim = "from_numpy"

\* C1 as stated: whenever the probe was true and from_dlpack or move_to_device
\* raised anything at all, the call does not propagate it and is served by the
\* CPU roundtrip.
C1_AnyTier1FailureFallsBack ==
  \A t \in Threads :
    (initPc = "done" /\ frame[t].dlpack /\ Tier1Failures(frame[t]) # {})
      => ServedByRoundtrip(frame[t])

\* C1 amended: whenever the probe was true and from_dlpack or move_to_device
\* raised an instance of Exception, the call does not propagate it and is
\* served by the CPU roundtrip.
C1_ExceptionInTier1FallsBack ==
  \A t \in Threads :
    (frame[t].dlpack /\ Tier1ExceptionFailures(frame[t]) # {}) => ServedByRoundtrip(frame[t])

C1_Witness ==
  \E t \in Threads :
    /\ initPc = "done"
    /\ frame[t].pc = "returned"
    /\ frame[t].dlpack
    /\ \E i \in Tier1ExceptionFailures(frame[t]) : frame[t].trace[i].prim = "move_to_device"

\* C2: a call that fails because to_numpy or from_numpy raised fails with a
\* MemoryConversionError whose cause is the exception the primitive raised.
C2_Tier2FailureWrapped ==
  \A t \in Threads :
    (initPc = "done" /\ frame[t].pc = "raised" /\ Last(frame[t].trace).prim \in Tier2Prims) =>
      /\ frame[t].exc.cls = "MemoryConversionError"
      /\ frame[t].exc.cause = Last(frame[t].trace).exc.cls

\* C3: every generated method is bound to the target it is named after, and a
\* call of to_<name> that returns hands back the value the converter
\* registered for name produced: its move_to_device after its from_dlpack, or
\* its from_numpy.
C3_TargetCorrectness ==
  /\ \A m \in MemoryType :
       method_name(m) \in DOMAIN generated => generated[method_name(m)] = m
  /\ \A t \in Threads :
       frame[t].pc = "returned" =>
         LET tr == frame[t].trace
             n == Len(tr)
         IN /\ tr[n].ok /\ tr[n].conv = frame[t].name
            /\ frame[t].ret = tr[n].val
            /\ frame[t].ret.fw = frame[t].name
            /\ \/ tr[n].prim = "from_numpy"
               \/ /\ tr[n].prim = "move_to_device"
                  /\ n = 2
                  /\ tr[1].prim = "from_dlpack" /\ tr[1].ok
                  /\ tr[1].conv = frame[t].name
                  /\ tr[n].arg = tr[1].val

C3_Witness ==
  \E t \in Threads :
    /\ initPc = "done"
    /\ frame[t].pc = "returned"
    /\ frame[t].self # frame[t].name
    /\ frame[t].name # MemoryTypeSeq[Len(MemoryTypeSeq)]

\* C4: a call whose source framework equals its target invokes move_to_device
\* only, does not raise, and returns a value equal to its input.
C4_SameFrameworkPath ==
  \A t \in Threads :
    (initPc = "done" /\ frame[t].self = frame[t].name) =>
      /\ \A i \in 1..Len(frame[t].trace) : frame[t].trace[i].prim = "move_to_device"
      /\ frame[t].pc \notin {"to_numpy", "from_numpy", "from_dlpack", "raised"}
      /\ frame[t].pc = "returned" =>
           /\ frame[t].ret.fw = frame[t].data.fw
           /\ frame[t].ret.content = frame[t].data.content

\* some registered converter lacks a primitive or a derived to_<target>
HoleIn(converters) ==
  \E m \in DOMAIN converters, a \in AllAttrs : ~hasattr(converters[m], a)

\* C5: once the validator has run, initialization has failed exactly if some
\* registered converter lacks a primitive or a derived to_<target> method, and
\* the failure is a RuntimeError naming a method that is missing.
C5_ValidationDetectsEveryHole ==
  initPc \in {"done", "failed"} =>
    /\ initPc = "failed" <=> HoleIn(_CONVERTERS)
    /\ initPc = "done" => initError = NoInitError
    /\ initPc = "failed" =>
         /\ initError.cls = "RuntimeError"
         /\ initError.mem_type \in MemoryType
         /\ ~hasattr(_CONVERTERS[initError.mem_type], initError.method)

C5_Witness ==
  /\ initPc = "failed"
  /\ initError.method \in DerivedNames \ Primitives

\* a step in which thread t enters a generated method
CallStarts(t) == frame'[t].hop > frame[t].hop

\* C6: the registry is populated before any method is generated, every
\* method is generated before the validator runs, the validator runs at most
\* once, and no caller enters a to_<target> method unless the validator has
\* completed successfully (stated for registries in which every converter is
\* a complete MemoryTypeConverter, where the validator does succeed).
C6_InitializationOrdering ==
  /\ [](/\ validations <= 1
        /\ DOMAIN generated # {} => DOMAIN _CONVERTERS = MemoryType
        /\ validations = 1 => DOMAIN generated = DerivedNames)
  /\ [][\A t \in Threads :
         (CallStarts(t) /\ \A m \in MemoryType : registered[m].abc) => initPc = "done"]_vars

\* C7: once the validator has raised, no caller enters a to_<target> method
\* and no call returns a converted value.
C7_NoServiceAfterFailedValidation ==
  [][initPc = "failed" =>
       \A t \in Threads :
         /\ ~CallStarts(t)
         /\ frame'[t].pc = "returned" => frame[t].pc = "returned"]_vars

\* C8: after successful initialization _CONVERTERS has one converter for each
\* MemoryType member, every to_<target> method has been generated, and each
\* converter has the four primitives and every to_<target>.
C8_CompleteConversionMatrix ==
  initPc = "done" =>
    /\ DOMAIN _CONVERTERS = MemoryType
    /\ DOMAIN generated = DerivedNames
    /\ \A m \in MemoryType :
         /\ _CONVERTERS[m] = registered[m]
         /\ \A p \in Primitives : hasattr(_CONVERTERS[m], p)
         /\ \A target \in MemoryType : hasattr(_CONVERTERS[m], method_name(target))

C8_Witness ==
  /\ initPc = "done"
  /\ \E t \in Threads : frame[t].pc = "returned" /\ frame[t].hop = 2

\* where a fully converted value of a call lives: the host for numpy, the
\* requested device otherwise
Placement(f) == IF f.name = "numpy" THEN "host" ELSE f.gpu_id

MoveFailed(f) ==
  \E i \in 1..Len(f.trace) : f.trace[i].prim = "move_to_device" /\ ~f.trace[i].ok

\* C9: a call that has ended has either raised, and returns nothing, or has
\* returned the successful output of move_to_device or from_numpy, a value of
\* the target framework placed as requested; when move_to_device failed after
\* from_dlpack succeeded, what is returned is the output of from_numpy, never
\* the value from_dlpack imported.
C9_AllOrNothing ==
  \A t \in Threads :
    LET f == frame[t] IN
    /\ f.pc = "raised" => f.ret = NoValue /\ f.exc # NoExc
    /\ f.pc = "returned" =>
         /\ f.exc = NoExc
         /\ Last(f.trace).ok
         /\ Last(f.trace).prim \in {"move_to_device", "from_numpy"}
         /\ f.ret = Last(f.trace).val
         /\ f.ret.fw = f.name
         /\ f.ret.dev = Placement(f)
    /\ (f.pc = "returned" /\ MoveFailed(f)) =>
         /\ Last(f.trace).prim = "from_numpy"
         /\ f.ret = from_numpy(f.name, f.numpy_data, f.gpu_id)

C9_Witness ==
  \E t \in Threads :
    /\ initPc = "done"
    /\ frame[t].pc = "returned"
    /\ MoveFailed(frame[t])
    /\ frame[t].result # NoValue
    /\ frame[t].result.dev # frame[t].ret.dev

\* C10: when a value is converted to a target and the result converted back
\* to the source, and both calls return, the final value has the contents and
\* the framework of the original, whichever tier served either call.
C10_RoundTrip ==
  \A t \in Threads :
    (frame[t].hop = 2 /\ frame[t].pc = "returned") =>
      /\ frame[t].ret.content = frame[t].orig.content
      /\ frame[t].ret.fw = frame[t].orig.fw
      /\ frame[t].data.content = frame[t].orig.content
      /\ frame[t].data.fw = frame[t].self

C10_Witness ==
  \E t \in Threads :
    /\ initPc = "done"
    /\ frame[t].hop = 2
    /\ frame[t].pc = "returned"
    /\ frame[t].self # frame[t].name
    /\ Last(frame[t].trace1).prim = "move_to_device"
    /\ Last(frame[t].trace).prim = "from_numpy"

\* what the call of frame f returns when it runs alone: computed from its own
\* arguments and from which tier its own primitive invocations let it use
SoloReturn(f) ==
  IF f.dlpack /\ Tier1Failures(f) = {}
    THEN move_to_device(f.name, from_dlpack(f.name, f.data, f.gpu_id), f.gpu_id)
    ELSE from_numpy(f.name, to_numpy(f.self, f.data, f.gpu_id), f.gpu_id)

\* the call of frame f ran on its own converters and its own array only, and
\* ended as it would have ended alone
Isolated(f) ==
  /\ \A i \in 1..Len(f.trace) :
       /\ f.trace[i].conv = (IF f.trace[i].prim = "to_numpy" THEN f.self ELSE f.name)
       /\ f.trace[i].arg.content = f.data.content
       /\ f.trace[i].gpu = f.gpu_id
  /\ f.pc = "returned" => f.ret = SoloReturn(f)
  /\ f.pc = "raised" => f.exc = Last(f.trace).exc

\* a step of some call
CallStep == frame' # frame

\* C11: no step of a conversion call writes _CONVERTERS or the generated
\* methods, which change only while the module body populates and generates
\* them; and under every interleaving of two threads' calls each call runs on
\* its own converters and array and ends as it would alone.
C11_ThreadSafety ==
  /\ [](\A t \in ConcurrentThreads : Isolated(frame[t]))
  /\ [][CallStep => UNCHANGED <<registered, _CONVERTERS, generated>>]_vars
  /\ [][(_CONVERTERS' # _CONVERTERS \/ generated' # generated)
          => (initPc \in {"populate", "generate"} /\ ~CallStep)]_vars

C11_Witness ==
  /\ initPc = "done"
  /\ frame["t1"].pc = "returned" /\ frame["t2"].pc = "returned"
  /\ frame["t1"].name # frame["t2"].name
  /\ frame["t1"].self # frame["t2"].self
  /\ Len(frame["t1"].trace) = 4 /\ Len(frame["t2"].trace) = 2

\* the call of frame f has evaluated the probe
Probed(f) == f.pc \notin {"idle", "probe"}

\* C12: once the probe has been evaluated, from_dlpack is the next or the
\* first primitive of the call exactly if the probe returned true; when it
\* returned false the call is in the CPU roundtrip and has invoked neither
\* from_dlpack nor move_to_device.
C12_Tier1Gating ==
  \A t \in Threads :
    LET f == frame[t] IN
    Probed(f) =>
      /\ f.dlpack <=> \/ f.pc = "from_dlpack"
                      \/ (Len(f.trace) >= 1 /\ f.trace[1].prim = "from_dlpack")
      /\ \A i \in 1..Len(f.trace) : f.trace[i].prim = "from_dlpack" => i = 1
      /\ ~f.dlpack =>
           /\ f.pc \in {"to_numpy", "from_numpy", "returned", "raised"}
           /\ \A i \in 1..Len(f.trace) : f.trace[i].prim \in Tier2Prims

C12_Witness ==
  \E t \in Threads :
    /\ initPc = "done"
    /\ frame[t].pc = "returned"
    /\ ~frame[t].dlpack
    /\ Len(frame[t].trace) = 2

\* C13: to_numpy runs on the caller's array with the source converter, and
\* from_numpy only right after a to_numpy that returned, on exactly the value
\* it returned; a to_numpy that raises ends the call, so from_numpy is never
\* invoked after it; every primitive gets the caller's gpu_id.
C13_Tier2DataFlow ==
  \A t \in Threads :
    LET f == frame[t] IN
    /\ \A i \in 1..Len(f.trace) :
         LET inv == f.trace[i] IN
         /\ inv.gpu = f.gpu_id
         /\ inv.prim = "to_numpy" => inv.arg = f.data /\ inv.conv = f.self
         /\ inv.prim = "from_numpy" =>
              /\ i > 1
              /\ f.trace[i - 1].prim = "to_numpy"
              /\ f.trace[i - 1].ok
              /\ inv.arg = f.trace[i - 1].val
         /\ (inv.prim = "to_numpy" /\ ~inv.ok) => (i = Len(f.trace) /\ f.pc = "raised")
    /\ f.pc = "from_numpy" => (Last(f.trace).prim = "to_numpy" /\ Last(f.trace).ok)

C13_Witness ==
  \E t \in Threads :
    /\ initPc = "done"
    /\ frame[t].pc = "returned"
    /\ Last(frame[t].trace).prim = "from_numpy"
    /\ frame[t].numpy_data # frame[t].data
    /\ Len(frame[t].trace) = 4

\* the CPU roundtrip of the call of frame f raised
Tier2Failed(f) ==
  \E i \in 1..Len(f.trace) : f.trace[i].prim \in Tier2Prims /\ ~f.trace[i].ok

\* a failure of the CPU roundtrip ends the call with the exception raised
Tier2FailurePropagates(f) ==
  Tier2Failed(f) =>
    /\ f.pc = "raised"
    /\ f.exc = Last(f.trace).exc
    /\ f.ret = NoValue

\* C14 as stated: a call has logged exactly one warning if a primitive of the
\* DLPack attempt raised anything at all and none otherwise, and a failure of
\* the CPU roundtrip leaves the call as an exception.
C14_OneWarningPerTier1Failure ==
  \A t \in Threads :
    LET f == frame[t] IN
    initPc = "done" =>
      /\ f.warnings = (IF Tier1Failures(f) # {} THEN 1 ELSE 0)
      /\ Tier2FailurePropagates(f)

\* C14 amended: a call has logged exactly one warning if a primitive of the
\* DLPack attempt raised an instance of Exception and none otherwise (not
\* attempted, succeeded, or left by a BaseException that is not an
\* Exception), and a failure of the CPU roundtrip leaves the call as an
\* exception.
C14_OneWarningPerCaughtTier1Failure ==
  \A t \in Threads :
    LET f == frame[t] IN
    /\ f.warnings = (IF Tier1ExceptionFailures(f) # {} THEN 1 ELSE 0)
    /\ Cardinality(Tier1Failures(f)) <= 1
    /\ Tier2FailurePropagates(f)

C14_Witness ==
  \E t \in Threads :
    /\ initPc = "done"
    /\ frame[t].pc = "raised"
    /\ frame[t].warnings = 1
    /\ Tier2Failed(frame[t])

\* the order in which the method can reach its primitive calls
CallOrder == <<"from_dlpack", "move_to_device", "to_numpy", "from_numpy">>

Rank(prim) == CHOOSE k \in 1..Len(CallOrder) : CallOrder[k] = prim

\* the primitives a call has invoked follow the order of the method body with
\* no primitive invoked twice: each tier is attempted at most once and the
\* DLPack attempt never follows the CPU roundtrip
AttemptsBounded(f) ==
  /\ \A i, j \in 1..Len(f.trace) : i < j => Rank(f.trace[i].prim) < Rank(f.trace[j].prim)
  /\ Len(f.trace) <= Len(CallOrder)
  /\ f.warnings <= 1

Ended(f) == f.pc \in {"returned", "raised"}

\* C15: a call attempts each tier at most once, never the DLPack attempt
\* after the CPU roundtrip, and invokes at most four primitives; provided
\* every primitive invocation terminates, every call that has been entered
\* ends by returning a value or raising.
C15_BoundedAttemptsAndTermination ==
  /\ [](\A t \in Threads :
          /\ AttemptsBounded(frame[t])
          /\ Ended(frame[t]) => Len(frame[t].trace) >= 1)
  /\ \A t \in Threads : (frame[t].pc = "probe") ~> Ended(frame[t])

C15_Witness ==
  \E t \in Threads :
    /\ initPc = "done"
    /\ frame[t].pc = "raised"
    /\ Len(frame[t].trace) = Len(CallOrder)

====
